---- MODULE Spec2Model ----
(***************************************************************************)
(* Model of PersonalAIAgent (src/main.py): the task and reminder store,    *)
(* the upcoming-reminder query and the travel itinerary builder.           *)
(*                                                                         *)
(* Texts are modelled by their parsed fields plus a flag saying whether    *)
(* the month/day fields are zero padded: "2024-03-01" and "2024-3-1" are   *)
(* different texts that strptime parses to the same date, while strftime   *)
(* always produces the padded one.  A datetime is a record of its fields.  *)
(* A Reminder object is referred to by its position in self.reminders      *)
(* (reminders are only ever appended), so a task's reminder list is a      *)
(* list of references to the objects of the store, as in the source.       *)
(***************************************************************************)
EXTENDS Integers, Sequences, FiniteSets, TLC

\* tasks, reminders, travel_itineraries: the three lists of the agent.
\* args, ret: the arguments of the last call and what it returned or raised.
\* created: how many calls of create_task_with_reminders have appended a task.
VARIABLES tasks, reminders, travel_itineraries, args, ret, created

vars == <<tasks, reminders, travel_itineraries, args, ret, created>>

(***************************************************************************)
(* Bounds of the model.                                                    *)
(***************************************************************************)
MaxTasks == 2
MaxReminders == 2
MaxCreated == 2
MaxStoreTasks == 2
MaxStoreReminders == 2
MaxItineraries == 1
MaxSpan == 1

(***************************************************************************)
(* datetime: calendar arithmetic of the standard library, as used by       *)
(* strptime, strftime, comparison and timedelta addition.                  *)
(***************************************************************************)
IsLeap(y) == (y % 4 = 0) /\ ((y % 100 # 0) \/ (y % 400 = 0))

DaysInMonth(y, m) ==
    IF m = 2 THEN (IF IsLeap(y) THEN 29 ELSE 28)
    ELSE IF m \in {4, 6, 9, 11} THEN 30 ELSE 31

DaysBeforeMonthTable == <<0, 31, 59, 90, 120, 151, 181, 212, 243, 273, 304, 334>>

DaysBeforeMonth(y, m) ==
    DaysBeforeMonthTable[m] + (IF m > 2 /\ IsLeap(y) THEN 1 ELSE 0)

DaysBeforeYear(y) ==
    (y - 1) * 365 + ((y - 1) \div 4) - ((y - 1) \div 100) + ((y - 1) \div 400)

\* datetime.toordinal(): day number, 0001-01-01 is day 1
ToOrdinal(dt) ==
    DaysBeforeYear(dt.year) + DaysBeforeMonth(dt.year, dt.month) + dt.day

\* date.fromordinal(n), with the time of day carried over
FromOrdinal(n, hour, minute) ==
    LET n0 == n - 1
        n400 == n0 \div 146097
        r400 == n0 % 146097
        n100 == r400 \div 36524
        r100 == r400 % 36524
        n4 == r100 \div 1461
        r4 == r100 % 1461
        n1 == r4 \div 365
        r1 == r4 % 365
        year == n400 * 400 + 1 + n100 * 100 + n4 * 4 + n1
    IN IF n1 = 4 \/ n100 = 4
       THEN [year |-> year - 1, month |-> 12, day |-> 31,
             hour |-> hour, minute |-> minute]
       ELSE LET leapyear == (n1 = 3) /\ (n4 # 24 \/ n100 = 3)
                month0 == (r1 + 50) \div 32
                before(m) == DaysBeforeMonthTable[m]
                                + (IF m > 2 /\ leapyear THEN 1 ELSE 0)
                month == IF before(month0) > r1 THEN month0 - 1 ELSE month0
            IN [year |-> year, month |-> month, day |-> r1 - before(month) + 1,
                hour |-> hour, minute |-> minute]

\* datetime + timedelta(days=n)
AddDays(dt, n) == FromOrdinal(ToOrdinal(dt) + n, dt.hour, dt.minute)

\* datetime comparison: field by field, most significant first
DtLess(a, b) ==
    \/ a.year < b.year
    \/ a.year = b.year /\ a.month < b.month
    \/ a.year = b.year /\ a.month = b.month /\ a.day < b.day
    \/ a.year = b.year /\ a.month = b.month /\ a.day = b.day /\ a.hour < b.hour
    \/ a.year = b.year /\ a.month = b.month /\ a.day = b.day /\ a.hour = b.hour
          /\ a.minute < b.minute

\* variant: the loop condition written with < instead of <=
DtLeq_strict(a, b) == DtLess(a, b)

DtLeq(a, b) == DtLess(a, b) \/ a = b

(***************************************************************************)
(* Texts.  A date text has the fields y, m, d and pad, an instant text     *)
(* has hh and mi in addition.                                              *)
(***************************************************************************)
DateText(y, m, d, pad) == [y |-> y, m |-> m, d |-> d, pad |-> pad]

InstantText(y, m, d, hh, mi) ==
    [y |-> y, m |-> m, d |-> d, pad |-> TRUE, hh |-> hh, mi |-> mi]

IsInstantText(t) == "hh" \in DOMAIN t

ValidDateFields(t) ==
    /\ t.y \in 1..9999
    /\ t.m \in 1..12
    /\ t.d \in 1..DaysInMonth(t.y, t.m)

\* strptime(text, "%Y-%m-%d %H:%M") succeeds
ParsesAsInstant(t) ==
    /\ IsInstantText(t)
    /\ ValidDateFields(t)
    /\ t.hh \in 0..23
    /\ t.mi \in 0..59

\* strptime(text, "%Y-%m-%d %H:%M") when it succeeds
StrptimeInstant(t) ==
    [year |-> t.y, month |-> t.m, day |-> t.d, hour |-> t.hh, minute |-> t.mi]

\* strptime(text, "%Y-%m-%d") succeeds
ParsesAsDate(t) == ~IsInstantText(t) /\ ValidDateFields(t)

\* strptime(text, "%Y-%m-%d") when it succeeds
StrptimeDate(t) ==
    [year |-> t.y, month |-> t.m, day |-> t.d, hour |-> 0, minute |-> 0]

\* variant: the date formatted without zero padding ("%Y-%-m-%-d")
StrftimeDate_unpadded(dt) ==
    DateText(dt.year, dt.month, dt.day, dt.month >= 10 /\ dt.day >= 10)

\* dt.strftime("%Y-%m-%d")
StrftimeDate(dt) == DateText(dt.year, dt.month, dt.day, TRUE)

(***************************************************************************)
(* Enumerations.                                                           *)
(***************************************************************************)
TaskPriority == [HIGH |-> "High", MEDIUM |-> "Medium", LOW |-> "Low"]

TaskStatus == [TODO |-> "To Do", IN_PROGRESS |-> "In Progress",
               COMPLETED |-> "Completed"]

\* str.upper() on the priority names used as inputs
Upper(s) ==
    CASE s = "high" -> "HIGH"
      [] s = "urgent" -> "URGENT"
      [] OTHER -> s

(***************************************************************************)
(* Results of an operation.                                                *)
(***************************************************************************)
Ok(op, v) == [op |-> op, outcome |-> "ok", value |-> v]

Raised(op, e) == [op |-> op, outcome |-> "error", value |-> e]

NoCall == [op |-> "none", outcome |-> "ok", value |-> <<>>]

(***************************************************************************)
(* Task and reminder store.                                                *)
(***************************************************************************)
Reminder(task_id, reminder_time, message) ==
    [task_id |-> task_id, reminder_time |-> reminder_time,
     notification_sent |-> FALSE, message |-> message]

\* add_reminder: the new collection, or the error of strptime
add_reminder(rems, task_id, reminder_time, message) ==
    IF ParsesAsInstant(reminder_time)
    THEN [ok |-> TRUE,
          reminders |-> Append(rems,
                          Reminder(task_id, StrptimeInstant(reminder_time), message))]
    ELSE [ok |-> FALSE, reminders |-> rems]

\* f"Reminder: {title} is due {due_date}"
ReminderMessage(title, due_date) == <<"Reminder: ", title, " is due ", due_date>>

\* f"task_{n}"
TaskId(n) == "task_" \o ToString(n)

\* variant: the loop forgets reminders.append(reminder)
RECURSIVE ReminderLoop_forgets(_, _, _, _, _)
ReminderLoop_forgets(rems, refs, task_id, times, message) ==
    IF times = <<>>
    THEN [ok |-> TRUE, reminders |-> rems, refs |-> refs]
    ELSE LET r == add_reminder(rems, task_id, Head(times), message)
         IN IF r.ok
            THEN ReminderLoop_forgets(r.reminders, refs, task_id, Tail(times), message)
            ELSE [ok |-> FALSE, reminders |-> r.reminders, refs |-> refs]

\* the loop over reminder_times: stops at the first text that does not parse,
\* keeping what was appended before it
RECURSIVE ReminderLoop(_, _, _, _, _)
ReminderLoop(rems, refs, task_id, times, message) ==
    IF times = <<>>
    THEN [ok |-> TRUE, reminders |-> rems, refs |-> refs]
    ELSE LET r == add_reminder(rems, task_id, Head(times), message)
         IN IF r.ok
            THEN ReminderLoop(r.reminders, Append(refs, Len(r.reminders)),
                              task_id, Tail(times), message)
            ELSE [ok |-> FALSE, reminders |-> r.reminders, refs |-> refs]

\* create_task_with_reminders as a function of the store and the arguments
create_task_with_reminders(tks, rems, title, description, due_date, priority, reminder_times) ==
    LET task_id == TaskId(Len(tks) + 1)
    IN IF ~ParsesAsInstant(due_date)
       THEN [tasks |-> tks, reminders |-> rems,
             ret |-> Raised("create_task", "ValueError")]
       ELSE LET loop == ReminderLoop(rems, <<>>, task_id, reminder_times,
                                     ReminderMessage(title, due_date))
            IN IF ~loop.ok
               THEN [tasks |-> tks, reminders |-> loop.reminders,
                     ret |-> Raised("create_task", "ValueError")]
               ELSE IF Upper(priority) \notin DOMAIN TaskPriority
               THEN [tasks |-> tks, reminders |-> loop.reminders,
                     ret |-> Raised("create_task", "KeyError")]
               ELSE LET task == [id |-> task_id, title |-> title,
                                 description |-> description,
                                 due_date |-> StrptimeInstant(due_date),
                                 priority |-> TaskPriority[Upper(priority)],
                                 status |-> TaskStatus.TODO,
                                 reminders |-> loop.refs]
                    IN [tasks |-> Append(tks, task), reminders |-> loop.reminders,
                        ret |-> Ok("create_task", task)]

(***************************************************************************)
(* Reminder query.                                                         *)
(***************************************************************************)
\* next((t for t in tasks if t.id == task_id), None): position of the first
\* task with that identifier, 0 for None
FirstTaskWithId(tks, task_id) ==
    LET hits == {i \in 1..Len(tks) : tks[i].id = task_id}
    IN IF hits = {} THEN 0 ELSE CHOOSE i \in hits : \A j \in hits : i <= j

\* the record built for one reminder that passes the filter
UpcomingRecord(tks, reminder) ==
    [time |-> reminder.reminder_time,
     task_title |-> tks[FirstTaskWithId(tks, reminder.task_id)].title,
     message |-> reminder.message]

\* variant: the filter written with >= instead of >
IsUpcoming_inclusive(tks, reminder, now) ==
    /\ ~reminder.notification_sent
    /\ ~DtLess(reminder.reminder_time, now)
    /\ FirstTaskWithId(tks, reminder.task_id) # 0

\* the condition under which the loop appends a record for a reminder
IsUpcoming(tks, reminder, now) ==
    /\ ~reminder.notification_sent
    /\ DtLess(now, reminder.reminder_time)
    /\ FirstTaskWithId(tks, reminder.task_id) # 0

\* the loop over self.reminders
RECURSIVE CollectUpcoming(_, _, _)
CollectUpcoming(tks, rems, now) ==
    IF rems = <<>> THEN <<>>
    ELSE LET front == SubSeq(rems, 1, Len(rems) - 1)
             last == rems[Len(rems)]
         IN IF IsUpcoming(tks, last, now)
            THEN Append(CollectUpcoming(tks, front, now), UpcomingRecord(tks, last))
            ELSE CollectUpcoming(tks, front, now)

\* variant: a sort that places x before the records of the same key
InsertByTime_unstable(s, x) ==
    LET after == {i \in 1..Len(s) : ~DtLess(s[i].time, x.time)}
        k == IF after = {} THEN Len(s) + 1
             ELSE CHOOSE i \in after : \A j \in after : i <= j
    IN SubSeq(s, 1, k - 1) \o <<x>> \o SubSeq(s, k, Len(s))

\* where sorted() places x among already sorted records: after every record
\* whose key is not greater (stable)
InsertByTime(s, x) ==
    LET after == {i \in 1..Len(s) : DtLess(x.time, s[i].time)}
        k == IF after = {} THEN Len(s) + 1
             ELSE CHOOSE i \in after : \A j \in after : i <= j
    IN SubSeq(s, 1, k - 1) \o <<x>> \o SubSeq(s, k, Len(s))

\* sorted(upcoming, key=lambda x: x['time'])
RECURSIVE SortedByTime(_)
SortedByTime(s) ==
    IF s = <<>> THEN <<>>
    ELSE InsertByTime(SortedByTime(SubSeq(s, 1, Len(s) - 1)), s[Len(s)])

get_upcoming_reminders(tks, rems, now) ==
    SortedByTime(CollectUpcoming(tks, rems, now))

(***************************************************************************)
(* Itinerary builder.                                                      *)
(***************************************************************************)
\* Optional[str]: None is the empty tuple, a string s is <<s>>
None == <<>>

Some(s) == <<s>>

\* the dict used for a date that has no entry in activities
DefaultActivities ==
    [morning |-> "Free time", afternoon |-> "Free time", evening |-> "Free time"]

\* variant: an entry that lacks a slot is replaced by the default dict
DayActivities_lenient(activities, date_str) ==
    IF /\ date_str \in DOMAIN activities
       /\ {"morning", "afternoon", "evening"} \subseteq DOMAIN activities[date_str]
    THEN activities[date_str]
    ELSE DefaultActivities

\* activities.get(date_str, {...})
DayActivities(activities, date_str) ==
    IF date_str \in DOMAIN activities THEN activities[date_str]
    ELSE DefaultActivities

\* the three subscripts day_activities[...] all find their key
HasSlots(day_activities) ==
    /\ "morning" \in DOMAIN day_activities
    /\ "afternoon" \in DOMAIN day_activities
    /\ "evening" \in DOMAIN day_activities

TravelDay(date, day_activities) ==
    [date |-> date,
     morning |-> day_activities["morning"],
     afternoon |-> day_activities["afternoon"],
     evening |-> day_activities["evening"],
     notes |-> IF "notes" \in DOMAIN day_activities
               THEN Some(day_activities["notes"]) ELSE None]

\* variant: the loop tests its condition after the body (do ... while)
RECURSIVE BuildDays_dowhile(_, _, _, _)
BuildDays_dowhile(days, current_date, end_date_obj, activities) ==
    LET day_activities == DayActivities(activities, StrftimeDate(current_date))
    IN IF ~HasSlots(day_activities)
       THEN [ok |-> FALSE, days |-> days]
       ELSE LET built == Append(days, TravelDay(current_date, day_activities))
                next_date == AddDays(current_date, 1)
            IN IF DtLeq(next_date, end_date_obj)
               THEN BuildDays_dowhile(built, next_date, end_date_obj, activities)
               ELSE [ok |-> TRUE, days |-> built]

\* the while loop: one day per iteration until current_date passes the end,
\* or the KeyError of a missing slot
RECURSIVE BuildDays(_, _, _, _)
BuildDays(days, current_date, end_date_obj, activities) ==
    IF ~DtLeq(current_date, end_date_obj)
    THEN [ok |-> TRUE, days |-> days]
    ELSE LET day_activities == DayActivities(activities, StrftimeDate(current_date))
         IN IF ~HasSlots(day_activities)
            THEN [ok |-> FALSE, days |-> days]
            ELSE BuildDays(Append(days, TravelDay(current_date, day_activities)),
                           AddDays(current_date, 1), end_date_obj, activities)

\* create_travel_itinerary as a function of the collection and the arguments
create_travel_itinerary(its, destination, start_date, end_date, activities, hotel_info, flight_info) ==
    IF ~ParsesAsDate(start_date) \/ ~ParsesAsDate(end_date)
    THEN [travel_itineraries |-> its,
          ret |-> Raised("create_itinerary", "ValueError")]
    ELSE LET start_date_obj == StrptimeDate(start_date)
             end_date_obj == StrptimeDate(end_date)
             loop == BuildDays(<<>>, start_date_obj, end_date_obj, activities)
         IN IF ~loop.ok
            THEN [travel_itineraries |-> its,
                  ret |-> Raised("create_itinerary", "KeyError")]
            ELSE LET itinerary == [destination |-> destination,
                                   start_date |-> start_date_obj,
                                   end_date |-> end_date_obj,
                                   days |-> loop.days,
                                   hotel_info |-> hotel_info,
                                   flight_info |-> flight_info]
                 IN [travel_itineraries |-> Append(its, itinerary),
                     ret |-> Ok("create_itinerary", itinerary)]

(***************************************************************************)
(* Inputs.                                                                 *)
(***************************************************************************)
Titles == {"Review", "Call"}

Descriptions == {"Prepare"}

DueTexts == {InstantText(2025, 2, 15, 14, 0), DateText(2025, 2, 15, TRUE)}

PriorityNames == {"high", "urgent"}

ReminderTexts == {InstantText(2025, 2, 14, 10, 0), InstantText(2025, 2, 15, 9, 0),
                  InstantText(2025, 2, 30, 9, 0)}

ReminderTimeLists ==
    {<<>>} \cup {<<a>> : a \in ReminderTexts}
           \cup {<<a, b>> : a \in ReminderTexts, b \in ReminderTexts}

\* the arguments used where the caller also works on the lists directly
StoreDueTexts == {InstantText(2025, 2, 15, 14, 0)}

StorePriorityNames == {"high"}

StoreReminderTimeLists == {<<>>} \cup {<<a>> : a \in ReminderTexts}

\* arguments of direct calls of add_reminder: the identifier of the first
\* task, which may or may not exist yet, a time that parses and one that
\* does not
ReminderTaskIds == {TaskId(1)}

AddedReminderTexts == {InstantText(2025, 2, 14, 10, 0), InstantText(2025, 2, 30, 9, 0)}

\* the default message "" of add_reminder: a text of no pieces
EmptyMessage == <<>>

Nows == {[year |-> 2025, month |-> 2, day |-> 14, hour |-> 0, minute |-> 0],
         [year |-> 2025, month |-> 2, day |-> 14, hour |-> 10, minute |-> 0],
         [year |-> 2025, month |-> 2, day |-> 15, hour |-> 9, minute |-> 0]}

FirstDay == [year |-> 2024, month |-> 2, day |-> 28, hour |-> 0, minute |-> 0]

\* "2024-02-28" and the MaxSpan days after it, "2024-3-1" written without
\* padding, and "2024-02-30", which is no date
DateTexts ==
    {StrftimeDate(AddDays(FirstDay, k)) : k \in 0..MaxSpan}
        \cup {DateText(2024, 3, 1, FALSE), DateText(2024, 2, 30, TRUE)}

NotedEntry ==
    [morning |-> "Museum", afternoon |-> "Walk", evening |-> "Dinner",
     notes |-> "Book tickets"]

EntryFields ==
    {{"morning", "afternoon", "evening", "notes"},
     {"morning", "afternoon", "evening"},
     {"afternoon", "evening", "notes"},
     {"morning", "evening"},
     {"morning", "afternoon", "notes"}}

EntryOf(fields) == [f \in fields |-> NotedEntry[f]]

Entries == {EntryOf(fields) : fields \in EntryFields}

\* no override; one override for "2024-02-29"; one under the key "2024-3-1",
\* which strftime never produces; two maps with overrides for two dates
ActivityMaps ==
    {<<>>}
        \cup {[k \in {DateText(2024, 2, 29, TRUE)} |-> e] : e \in Entries}
        \cup {[k \in {DateText(2024, 3, 1, FALSE)} |-> EntryOf({"afternoon", "evening"})]}
        \cup {[k \in {DateText(2024, 2, 28, TRUE), DateText(2024, 2, 29, TRUE)} |->
                  IF k.d = 28 THEN EntryOf({"morning", "afternoon", "evening"})
                  ELSE EntryOf({"morning", "afternoon"})],
              [k \in {DateText(2024, 2, 29, TRUE), DateText(2024, 3, 1, TRUE)} |->
                  IF k.d = 29 THEN NotedEntry
                  ELSE EntryOf({"morning", "afternoon", "evening"})]}

Destinations == {"New York"}

HotelInfos == {[name |-> "Grand Hyatt", confirmation |-> "HY123456"]}

FlightInfos == {[flight_number |-> "DL123"]}

(***************************************************************************)
(* State after construction.                                               *)
(***************************************************************************)
Init ==
    /\ tasks = <<>>
    /\ reminders = <<>>
    /\ travel_itineraries = <<>>
    /\ args = <<>>
    /\ ret = NoCall
    /\ created = 0

(***************************************************************************)
(* Actions of the store.                                                   *)
(***************************************************************************)
\* one call of create_task_with_reminders with arguments from the given sets
CreateTask(titles, dues, priorities, lists, maxTasks, maxReminders) ==
    \E title \in titles, description \in Descriptions, due_date \in dues,
       priority \in priorities, reminder_times \in lists :
        /\ Len(tasks) < maxTasks
        /\ created < MaxCreated
        /\ Len(reminders) + Len(reminder_times) <= maxReminders
        /\ LET r == create_task_with_reminders(tasks, reminders, title, description,
                                               due_date, priority, reminder_times)
           IN /\ tasks' = r.tasks
              /\ reminders' = r.reminders
              /\ ret' = r.ret
              /\ created' = IF r.ret.outcome = "ok" THEN created + 1 ELSE created
        /\ args' = [title |-> title, description |-> description,
                    due_date |-> due_date, priority |-> priority,
                    reminder_times |-> reminder_times]
        /\ UNCHANGED travel_itineraries

CreateTaskWithReminders ==
    CreateTask(Titles, DueTexts, PriorityNames, ReminderTimeLists,
               MaxTasks, MaxReminders)

StoreCreateTask ==
    CreateTask(Titles, StoreDueTexts, StorePriorityNames, StoreReminderTimeLists,
               MaxStoreTasks, MaxStoreReminders)

\* a direct call of add_reminder by the caller, with the default message ""
AddReminder ==
    \E task_id \in ReminderTaskIds, reminder_time \in AddedReminderTexts :
        /\ Len(reminders) < MaxStoreReminders
        /\ LET r == add_reminder(reminders, task_id, reminder_time, EmptyMessage)
           IN /\ reminders' = r.reminders
              /\ ret' = IF r.ok THEN Ok("add_reminder", Len(r.reminders))
                                ELSE Raised("add_reminder", "ValueError")
        /\ args' = [task_id |-> task_id, reminder_time |-> reminder_time]
        /\ UNCHANGED <<tasks, travel_itineraries, created>>

GetUpcomingReminders ==
    \E now \in Nows :
        /\ ret' = Ok("get_upcoming", get_upcoming_reminders(tasks, reminders, now))
        /\ args' = [now |-> now]
        /\ UNCHANGED <<tasks, reminders, travel_itineraries, created>>

\* the caller sets notification_sent on a Reminder object it was handed
MarkNotified ==
    \E i \in 1..Len(reminders) :
        /\ ~reminders[i].notification_sent
        /\ reminders' = [reminders EXCEPT ![i].notification_sent = TRUE]
        /\ ret' = NoCall
        /\ args' = <<>>
        /\ UNCHANGED <<tasks, travel_itineraries, created>>

\* the caller removes a task from the list self.tasks
RemoveTask ==
    \E i \in 1..Len(tasks) :
        /\ tasks' = SubSeq(tasks, 1, i - 1) \o SubSeq(tasks, i + 1, Len(tasks))
        /\ ret' = NoCall
        /\ args' = <<>>
        /\ UNCHANGED <<reminders, travel_itineraries, created>>

\* one call of create_travel_itinerary
CreateTravelItinerary ==
    \E destination \in Destinations, start_date \in DateTexts, end_date \in DateTexts,
       activities \in ActivityMaps, hotel_info \in HotelInfos,
       flight_info \in FlightInfos :
        LET r == create_travel_itinerary(travel_itineraries, destination, start_date,
                                         end_date, activities, hotel_info, flight_info)
        IN /\ Len(travel_itineraries) < MaxItineraries
           /\ travel_itineraries' = r.travel_itineraries
           /\ ret' = r.ret
           /\ args' = [destination |-> destination, start_date |-> start_date,
                       end_date |-> end_date, activities |-> activities,
                       hotel_info |-> hotel_info, flight_info |-> flight_info]
           /\ UNCHANGED <<tasks, reminders, created>>

(***************************************************************************)
(* Three specifications over the same state: the itinerary builder alone;  *)
(* the calls of create_task_with_reminders and get_upcoming_reminders      *)
(* alone; and the store as a caller can use it, who may also call          *)
(* add_reminder directly, set notification_sent on a reminder and remove   *)
(* a task from the public list self.tasks.                                 *)
(***************************************************************************)
NextItinerary == CreateTravelItinerary

SpecItinerary == Init /\ [][NextItinerary]_vars

NextTasks == CreateTaskWithReminders \/ GetUpcomingReminders

SpecTasks == Init /\ [][NextTasks]_vars

NextStore ==
    \/ StoreCreateTask
    \/ AddReminder
    \/ GetUpcomingReminders
    \/ MarkNotified
    \/ RemoveTask

SpecStore == Init /\ [][NextStore]_vars

(***************************************************************************)
(* Properties of create_task_with_reminders.                               *)
(***************************************************************************)
\* C1: a call of create_task_with_reminders that fails leaves the task list
\* and the reminder list exactly as they were before the call.
C1_FailedCreateLeavesStore ==
    [][(ret'.op = "create_task" /\ ret'.outcome = "error")
          => (tasks' = tasks /\ reminders' = reminders)]_vars

\* C2: with a valid due-date text, a valid priority name and valid reminder
\* time texts the call returns a task whose identifier no other task of the
\* store has and whose reminder list has one entry per reminder time text.
C2_UniqueIdAndReminderCount ==
    (/\ ret.op = "create_task"
     /\ ParsesAsInstant(args.due_date)
     /\ args.priority \in {"HIGH", "high", "MEDIUM", "medium", "LOW", "low"}
     /\ \A k \in 1..Len(args.reminder_times) :
            ParsesAsInstant(args.reminder_times[k]))
        => /\ ret.outcome = "ok"
           /\ tasks # <<>>
           /\ tasks[Len(tasks)] = ret.value
           /\ \A i \in 1..(Len(tasks) - 1) : tasks[i].id # ret.value.id
           /\ Len(ret.value.reminders) = Len(args.reminder_times)

C2_Witness ==
    /\ ret.op = "create_task"
    /\ ret.outcome = "ok"
    /\ Len(tasks) = 2
    /\ Len(args.reminder_times) = 2
    /\ Len(ret.value.reminders) = 2

\* C3: the k-th successfully created task receives the identifier "task_k",
\* also when tasks were removed from the task list between creations.
C3_KthTaskGetsIdK ==
    (ret.op = "create_task" /\ ret.outcome = "ok")
        => ret.value.id = "task_" \o ToString(created)

\* C10: every reminder of the store carries the identifier of a task that is
\* in the store and that holds this reminder in its own reminder list (it was
\* created by the same call), and every record of get_upcoming_reminders has
\* the title that was passed to the call that created its reminder (the title
\* the reminder's message quotes).
C10_RemindersBelongToTheirTask ==
    /\ \A i \in 1..Len(reminders) :
          \E k \in 1..Len(tasks) :
              /\ tasks[k].id = reminders[i].task_id
              /\ \E j \in 1..Len(tasks[k].reminders) : tasks[k].reminders[j] = i
    /\ ret.op = "get_upcoming"
          => \A k \in 1..Len(ret.value) :
                 ret.value[k].task_title = ret.value[k].message[2]

(***************************************************************************)
(* Properties of get_upcoming_reminders.                                   *)
(***************************************************************************)
\* C6: the result holds exactly one record for every reminder that is not
\* notified, strictly later than now and whose task identifier is that of a
\* task in the store, and no record from any other reminder.
C6_ExactlyTheUpcoming ==
    ret.op = "get_upcoming" =>
        LET minutes(dt) == ((DaysBeforeYear(dt.year) + DaysBeforeMonth(dt.year, dt.month)
                                + dt.day) * 24 + dt.hour) * 60 + dt.minute
            owners(i) == {k \in 1..Len(tasks) : tasks[k].id = reminders[i].task_id}
            wanted == {i \in 1..Len(reminders) :
                          /\ reminders[i].notification_sent = FALSE
                          /\ minutes(reminders[i].reminder_time) > minutes(args.now)
                          /\ owners(i) # {}}
            record(i) == [time |-> reminders[i].reminder_time,
                          task_title |->
                              tasks[CHOOSE k \in owners(i) : \A l \in owners(i) : k <= l].title,
                          message |-> reminders[i].message]
        IN /\ \A k \in 1..Len(ret.value) : \E i \in wanted : record(i) = ret.value[k]
           /\ \A i \in wanted :
                 Cardinality({k \in 1..Len(ret.value) : ret.value[k] = record(i)})
                     = Cardinality({j \in wanted : record(j) = record(i)})

C6_Witness ==
    /\ ret.op = "get_upcoming"
    /\ Len(ret.value) = 1
    /\ \E i \in 1..Len(reminders) :
          /\ reminders[i].reminder_time = args.now
          /\ ~reminders[i].notification_sent
          /\ \E k \in 1..Len(tasks) : tasks[k].id = reminders[i].task_id

\* C7: the records are in ascending order of time, and the records of one
\* time are in the order in which their reminders were appended to the store.
C7_SortedAndStable ==
    ret.op = "get_upcoming" =>
        LET minutes(dt) == ((DaysBeforeYear(dt.year) + DaysBeforeMonth(dt.year, dt.month)
                                + dt.day) * 24 + dt.hour) * 60 + dt.minute
            owners(i) == {k \in 1..Len(tasks) : tasks[k].id = reminders[i].task_id}
            wanted(t) == {i \in 1..Len(reminders) :
                             /\ reminders[i].notification_sent = FALSE
                             /\ minutes(reminders[i].reminder_time) > minutes(args.now)
                             /\ owners(i) # {}
                             /\ reminders[i].reminder_time = t}
            nth(t, n) == CHOOSE i \in wanted(t) :
                             Cardinality({j \in wanted(t) : j <= i}) = n
            record(i) == [time |-> reminders[i].reminder_time,
                          task_title |->
                              tasks[CHOOSE k \in owners(i) : \A l \in owners(i) : k <= l].title,
                          message |-> reminders[i].message]
            at(t) == SelectSeq(ret.value, LAMBDA r : r.time = t)
        IN /\ \A k \in 1..Len(ret.value), l \in 1..Len(ret.value) :
                 k < l => minutes(ret.value[k].time) <= minutes(ret.value[l].time)
           /\ \A k \in 1..Len(ret.value) :
                 LET t == ret.value[k].time
                 IN /\ Len(at(t)) = Cardinality(wanted(t))
                    /\ \A n \in 1..Len(at(t)) : at(t)[n] = record(nth(t, n))

C7_Witness ==
    /\ ret.op = "get_upcoming"
    /\ Len(ret.value) = 2
    /\ ret.value[1].time = ret.value[2].time
    /\ ret.value[1] # ret.value[2]

(***************************************************************************)
(* Properties of create_travel_itinerary.                                  *)
(***************************************************************************)
\* C4: for a start date S and an end date E with S <= E the returned
\* itinerary has (E - S).days + 1 days in chronological order, the day at
\* zero-based position i having the date S + i days: the first is S, the
\* last is E.
C4_OneDayPerDate ==
    (/\ ret.op = "create_itinerary"
     /\ ret.outcome = "ok"
     /\ ~DtLess(ret.value.end_date, ret.value.start_date))
        => LET S == [year |-> args.start_date.y, month |-> args.start_date.m,
                     day |-> args.start_date.d, hour |-> 0, minute |-> 0]
               E == [year |-> args.end_date.y, month |-> args.end_date.m,
                     day |-> args.end_date.d, hour |-> 0, minute |-> 0]
               days == ret.value.days
           IN /\ Len(days) = ToOrdinal(E) - ToOrdinal(S) + 1
              /\ days[1].date = S
              /\ days[Len(days)].date = E
              /\ \A i \in 1..Len(days) :
                    ToOrdinal(days[i].date) = ToOrdinal(S) + (i - 1)
              /\ \A i \in 1..(Len(days) - 1) : DtLess(days[i].date, days[i + 1].date)

C4_Witness ==
    /\ ret.op = "create_itinerary"
    /\ ret.outcome = "ok"
    /\ Len(ret.value.days) = 3
    /\ ret.value.days[2].date.day = 29
    /\ ret.value.days[3].date.month = 3

\* C5: a day whose date, formatted YYYY-MM-DD, is no key of the activity map
\* has "Free time" in its three slots and no notes; a day whose date is a key
\* with the three slots present has that entry's three strings and its notes,
\* or no notes when the entry has none.
C5_OverrideOrFreeTime ==
    (ret.op = "create_itinerary" /\ ret.outcome = "ok")
        => \A i \in 1..Len(ret.value.days) :
              LET day == ret.value.days[i]
                  key == [y |-> day.date.year, m |-> day.date.month,
                          d |-> day.date.day, pad |-> TRUE]
              IN IF key \notin DOMAIN args.activities
                 THEN /\ day.morning = "Free time"
                      /\ day.afternoon = "Free time"
                      /\ day.evening = "Free time"
                      /\ day.notes = <<>>
                 ELSE LET entry == args.activities[key]
                      IN {"morning", "afternoon", "evening"} \subseteq DOMAIN entry
                            => /\ day.morning = entry["morning"]
                               /\ day.afternoon = entry["afternoon"]
                               /\ day.evening = entry["evening"]
                               /\ day.notes = IF "notes" \in DOMAIN entry
                                              THEN <<entry["notes"]>> ELSE <<>>

C5_Witness ==
    /\ ret.op = "create_itinerary"
    /\ ret.outcome = "ok"
    /\ Len(ret.value.days) = 3
    /\ ret.value.days[1].morning = "Free time"
    /\ ret.value.days[2].notes = <<"Book tickets">>
    /\ ret.value.days[3].morning = "Museum"
    /\ ret.value.days[3].notes = <<>>

\* C8: when the activity map has an entry for a date inside the range that
\* omits one of morning, afternoon or evening, the call fails with the
\* missing-key error, returns no itinerary and leaves the itinerary
\* collection unchanged, however many earlier days were already built.
C8_MissingSlotFails ==
    [][(/\ ret'.op = "create_itinerary"
        /\ ParsesAsDate(args'.start_date)
        /\ ParsesAsDate(args'.end_date)
        /\ \E key \in DOMAIN args'.activities :
              LET ord(t) == DaysBeforeYear(t.y) + DaysBeforeMonth(t.y, t.m) + t.d
              IN /\ key.pad
                 /\ ParsesAsDate(key)
                 /\ ord(args'.start_date) <= ord(key)
                 /\ ord(key) <= ord(args'.end_date)
                 /\ ~({"morning", "afternoon", "evening"}
                         \subseteq DOMAIN args'.activities[key]))
          => /\ ret'.outcome = "error"
             /\ ret'.value = "KeyError"
             /\ travel_itineraries' = travel_itineraries]_vars

C8_Witness ==
    /\ ret.op = "create_itinerary"
    /\ ret.outcome = "error"
    /\ ret.value = "KeyError"
    /\ args.start_date = [y |-> 2024, m |-> 2, d |-> 28, pad |-> TRUE]
    /\ [y |-> 2024, m |-> 2, d |-> 29, pad |-> TRUE] \in DOMAIN args.activities
    /\ [y |-> 2024, m |-> 2, d |-> 28, pad |-> TRUE] \notin DOMAIN args.activities
    /\ travel_itineraries = <<>>

\* C9: when the end date precedes the start date the call raises nothing: it
\* returns an itinerary with no days that keeps the two dates, and appends it
\* to the itinerary collection.
C9_ReversedRangeIsEmpty ==
    [][(/\ ret'.op = "create_itinerary"
        /\ ParsesAsDate(args'.start_date)
        /\ ParsesAsDate(args'.end_date)
        /\ LET ord(t) == DaysBeforeYear(t.y) + DaysBeforeMonth(t.y, t.m) + t.d
           IN ord(args'.end_date) < ord(args'.start_date))
          => /\ ret'.outcome = "ok"
             /\ ret'.value.days = <<>>
             /\ ret'.value.start_date =
                    [year |-> args'.start_date.y, month |-> args'.start_date.m,
                     day |-> args'.start_date.d, hour |-> 0, minute |-> 0]
             /\ ret'.value.end_date =
                    [year |-> args'.end_date.y, month |-> args'.end_date.m,
                     day |-> args'.end_date.d, hour |-> 0, minute |-> 0]
             /\ travel_itineraries' = Append(travel_itineraries, ret'.value)]_vars

C9_Witness ==
    /\ ret.op = "create_itinerary"
    /\ ret.outcome = "ok"
    /\ ret.value.days = <<>>
    /\ args.start_date = [y |-> 2024, m |-> 3, d |-> 1, pad |-> FALSE]
    /\ args.end_date = [y |-> 2024, m |-> 2, d |-> 29, pad |-> TRUE]
    /\ travel_itineraries = <<ret.value>>

====
